---- MODULE Spec2Model ----
(***************************************************************************)
(* Workout & Nutrition Tracker API (src/main.py, src/schemas.py).          *)
(*                                                                         *)
(* Conventions of the model                                                *)
(*   - a Python Optional value is None == <<>> or Some(v) == <<v>>;        *)
(*   - text that is searched (title, description, q) is a tuple of         *)
(*     one-character strings; other text is an atomic string;              *)
(*   - a dict is a function whose domain is its set of keys;               *)
(*   - floats are integers; FoodLog.quantity is counted in hundredths      *)
(*     (0.05 is 5, 0.1 is 10, 1.0 is 100);                                 *)
(*   - an ObjectId is a positive integer, its str() form is ToString.      *)
(***************************************************************************)
EXTENDS Integers, Sequences, FiniteSets, TLC

VARIABLES
    store,      \* the document store: collection name -> documents in insertion order
    calls,      \* the seed_templates requests: position in the handler and its result
    request,    \* the last request served by a one-step handler, with what it was given
    response,   \* the response to that request
    doc,        \* to_public: the caller's document object
    outs        \* to_public: the values returned by successive applications

vars == <<store, calls, request, response, doc, outs>>

(***************************************************************************)
(* Bounds of the model.                                                    *)
(***************************************************************************)
NumCalls == 2      \* seed_templates requests
MaxDocs == 1       \* documents created through the create_* endpoints
MaxQLen == 2       \* length of a search query
MaxApply == 2      \* successive applications of to_public
MaxId == 2         \* ObjectIds of the documents given to to_public

None == <<>>
Some(v) == <<v>>

(***************************************************************************)
(* schemas.py                                                              *)
(***************************************************************************)
\* Exercise with le=21 on sets.
ExerciseValidLooseSets(e) ==
    /\ e.sets >= 1 /\ e.sets <= 21
    /\ e.reps >= 1 /\ e.reps <= 100
    /\ (e.weight = None \/ e.weight[1] >= 0)

\* Exercise: sets in 1..20, reps in 1..100, weight None or >= 0.
ExerciseValid(e) ==
    /\ e.sets >= 1 /\ e.sets <= 20
    /\ e.reps >= 1 /\ e.reps <= 100
    /\ (e.weight = None \/ e.weight[1] >= 0)

\* WorkoutTemplate: exercises is a list of Exercise; every element is validated.
WorkoutTemplateValid(t) ==
    \A i \in 1..Len(t.exercises) : ExerciseValid(t.exercises[i])

\* WorkoutSession: exercises is a list of Exercise.
WorkoutSessionValid(s) ==
    \A i \in 1..Len(s.exercises) : ExerciseValid(s.exercises[i])

\* FoodItem: calories >= 0; protein, carbs, fat None or >= 0.
FoodItemValid(f) ==
    /\ f.calories >= 0
    /\ (f.protein = None \/ f.protein[1] >= 0)
    /\ (f.carbs = None \/ f.carbs[1] >= 0)
    /\ (f.fat = None \/ f.fat[1] >= 0)

\* FoodLog: item is a FoodItem, quantity >= 0.1 (10 hundredths).
FoodLogValid(l) ==
    /\ FoodItemValid(l.item)
    /\ l.quantity >= 10

(***************************************************************************)
(* Request payloads.  Two valid exercises sit on the lower and the upper   *)
(* bounds; each invalid one leaves exactly one bound by one.               *)
(***************************************************************************)
ExLo == [name |-> "Squat", sets |-> 1, reps |-> 1, weight |-> None, notes |-> None]
ExHi == [name |-> "Squat", sets |-> 20, reps |-> 100, weight |-> Some(0), notes |-> None]

ExerciseInputs ==
    {ExLo, ExHi}
    \cup {[ExLo EXCEPT !.sets = v] : v \in {0, 21}}
    \cup {[ExLo EXCEPT !.reps = v] : v \in {0, 101}}
    \cup {[ExLo EXCEPT !.weight = Some(-1)]}

ExerciseLists ==
    {<<>>, <<ExLo, ExHi>>}
    \cup {<<e>> : e \in ExerciseInputs \ {ExLo, ExHi}}
    \cup {<<ExLo, e>> : e \in ExerciseInputs \ {ExLo, ExHi}}

UserTitle == <<"A", ".", "y">>

TemplateInputs ==
    {[title |-> UserTitle, description |-> None, exercises |-> x, level |-> None] :
        x \in ExerciseLists}

SessionInputs ==
    {[user_id |-> "u1", session_date |-> "2024-01-01", title |-> "Legs",
      exercises |-> x, notes |-> None] :
        x \in {<<ExHi>>, <<ExLo, [ExLo EXCEPT !.sets = 21]>>, <<[ExLo EXCEPT !.weight = Some(-1)]>>}}

ItemLo ==
    [barcode |-> None, name |-> "Water", brand |-> None, calories |-> 0,
     protein |-> None, carbs |-> Some(0), fat |-> Some(0), serving_size |-> None]

ItemHi ==
    [barcode |-> None, name |-> "Oats", brand |-> None, calories |-> 250,
     protein |-> Some(7), carbs |-> Some(60), fat |-> Some(5), serving_size |-> None]

FoodItemInputs ==
    {ItemLo}
    \cup {[ItemLo EXCEPT !.calories = -1]}
    \cup {[ItemLo EXCEPT !.protein = Some(-1)]}
    \cup {[ItemLo EXCEPT !.carbs = Some(-1)]}
    \cup {[ItemLo EXCEPT !.fat = Some(-1)]}

FoodLogInputs ==
    {[user_id |-> "u1", log_date |-> "2024-01-01", meal |-> Some("unspecified"),
      item |-> f, quantity |-> 10] : f \in FoodItemInputs}
    \cup {[user_id |-> "u1", log_date |-> "2024-01-01", meal |-> Some("unspecified"),
           item |-> ItemHi, quantity |-> v] : v \in {5, 100}}

(***************************************************************************)
(* main.py: PREBUILT_TEMPLATES.  Exercise dicts are coerced to Exercise,   *)
(* so weight and notes left out are None.                                  *)
(***************************************************************************)
Ex(n, s, r) == [name |-> n, sets |-> s, reps |-> r, weight |-> None, notes |-> None]

PushTitle ==
    <<"P","u","s","h"," ","D","a","y"," ","(","C","h","e","s","t","/","S","h","o","u",
      "l","d","e","r","s","/","T","r","i","c","e","p","s",")">>
PushDescription ==
    <<"C","l","a","s","s","i","c"," ","p","u","s","h"," ","w","o","r","k","o","u","t">>
PullTitle ==
    <<"P","u","l","l"," ","D","a","y"," ","(","B","a","c","k","/","B","i","c","e","p","s",")">>
PullDescription ==
    <<"B","a","c","k"," ","a","n","d"," ","b","i","c","e","p","s"," ","f","o","c","u","s">>
LegTitle == <<"L","e","g"," ","D","a","y">>
LegDescription ==
    <<"Q","u","a","d","s",","," ","h","a","m","s","t","r","i","n","g","s",","," ",
      "g","l","u","t","e","s">>

PREBUILT_TEMPLATES ==
    << [title |-> PushTitle, description |-> Some(PushDescription),
        level |-> Some("Intermediate"),
        exercises |-> << Ex("Bench Press", 4, 8), Ex("Incline Dumbbell Press", 3, 10),
                         Ex("Overhead Press", 3, 8), Ex("Lateral Raise", 3, 15),
                         Ex("Tricep Pushdown", 3, 12) >>],
       [title |-> PullTitle, description |-> Some(PullDescription),
        level |-> Some("Intermediate"),
        exercises |-> << Ex("Deadlift", 3, 5), Ex("Bent-over Row", 4, 8),
                         Ex("Lat Pulldown", 3, 10), Ex("Face Pulls", 3, 15),
                         Ex("Bicep Curl", 3, 12) >>],
       [title |-> LegTitle, description |-> Some(LegDescription),
        level |-> Some("Intermediate"),
        exercises |-> << Ex("Squat", 4, 6), Ex("Romanian Deadlift", 3, 8),
                         Ex("Leg Press", 3, 12), Ex("Leg Curl", 3, 12),
                         Ex("Calf Raise", 4, 15) >>] >>

PrebuiltTitles == {PREBUILT_TEMPLATES[i].title : i \in 1..Len(PREBUILT_TEMPLATES)}

(***************************************************************************)
(* database.py is not part of the sources at hand: the gateway follows     *)
(* section 4.4 of the specification.                                       *)
(***************************************************************************)
Collections == {"workouttemplate", "workoutsession", "foodlog"}

\* The store assigns each inserted document a fresh identifier.
NewId ==
    Len(store["workouttemplate"]) + Len(store["workoutsession"])
        + Len(store["foodlog"]) + 1

\* createDocument: the store after inserting one document built from data.
create_document(collection, data) ==
    [store EXCEPT ![collection] = Append(@, ("_id" :> NewId) @@ data)]

Take(s, limit) ==
    IF limit = None \/ Len(s) <= limit[1] THEN s ELSE SubSeq(s, 1, limit[1])

Lower(c) ==
    LET U == <<"A","B","C","D","E","F","G","H","I","J","K","L","M",
               "N","O","P","Q","R","S","T","U","V","W","X","Y","Z">>
        L == <<"a","b","c","d","e","f","g","h","i","j","k","l","m",
               "n","o","p","q","r","s","t","u","v","w","x","y","z">>
    IN IF \E n \in 1..Len(U) : U[n] = c
       THEN L[CHOOSE n \in 1..Len(U) : U[n] = c]
       ELSE c

\* The patterns of the model are made of letters, '.' and '('.  A '(' opens a
\* group that nothing closes, which the store refuses to compile.
RegexCompiles(q) == \A j \in 1..Len(q) : q[j] # "("

\* {"$regex": q, "$options": "i"} on a text value: an unanchored search in
\* which '.' stands for any character and letters match in either case.
RegexSearch(q, s) ==
    \E n \in 0..(Len(s) - Len(q)) :
        \A j \in 1..Len(q) : q[j] = "." \/ Lower(q[j]) = Lower(s[n + j])

\* The text a field holds, None when it holds none: title is required text,
\* description is optional.
TextOf(d, field) == IF field = "title" THEN Some(d[field]) ELSE d[field]

\* A $regex condition matches only a field that holds text.
RegexField(d, cond) ==
    TextOf(d, cond.field) # None /\ RegexSearch(cond.regex, TextOf(d, cond.field)[1])

\* A filter is [eq |-> field -> value, or |-> regex conditions]: every
\* equality holds and, when there are regex conditions, one of them does.
Matches(d, filt) ==
    /\ \A k \in DOMAIN filt.eq : d[k] = filt.eq[k]
    /\ (filt.or = <<>> \/ \E n \in 1..Len(filt.or) : RegexField(d, filt.or[n]))

\* The store raises on a filter with a pattern it cannot compile.
FilterCompiles(filt) == \A n \in 1..Len(filt.or) : RegexCompiles(filt.or[n].regex)

\* getDocuments: the documents matching the filter, at most limit of them.
get_documents(collection, filt, limit) ==
    Take(SelectSeq(store[collection], LAMBDA d : Matches(d, filt)), limit)

\* db["workouttemplate"].count_documents({})
count_documents(collection) == Len(store[collection])

(***************************************************************************)
(* main.py: to_public                                                      *)
(***************************************************************************)
PyNone == [py_none |-> TRUE]
EmptyDict == [k \in {} |-> 0]

\* `not doc`: None and the empty dict are falsy.
Falsy(d) == d = PyNone \/ DOMAIN d = {}

\* to_public that builds the result from the identifier alone.
to_public_only_id(d) ==
    IF Falsy(d) THEN d
    ELSE IF "_id" \in DOMAIN d
         THEN [k \in {"id"} |-> ToString(d["_id"])]
         ELSE d

\* to_public that reads "_id" without popping it.
to_public_keeps_id(d) ==
    IF Falsy(d) THEN d
    ELSE IF "_id" \in DOMAIN d
         THEN [k \in DOMAIN d \cup {"id"} |->
                  IF k = "id" THEN ToString(d["_id"]) ELSE d[k]]
         ELSE d

to_public(d) ==
    IF Falsy(d) THEN d
    ELSE IF "_id" \in DOMAIN d
         THEN [k \in (DOMAIN d \ {"_id"}) \cup {"id"} |->
                  IF k = "id" THEN ToString(d["_id"]) ELSE d[k]]
         ELSE d

\* The caller's object after to_public(doc): d = dict(doc) is a copy, and the
\* pop and the assignment act on the copy.
to_public_argument(d) == d

\* [to_public(d) for d in docs]
public_list(docs) == [n \in 1..Len(docs) |-> to_public(docs[n])]

(***************************************************************************)
(* Responses.  status is the HTTP status; 422 is the framework's answer to *)
(* a payload or parameter that fails validation, 500 its answer to an      *)
(* exception that leaves the handler.                                      *)
(***************************************************************************)
Reply(op, status, body) == [op |-> op, status |-> status, body |-> body]

NoResponse == Reply("none", 0, <<>>)

Asked(op, arg, ok) == [op |-> op, arg |-> arg, ok |-> ok]

NoRequest == Asked("none", <<>>, TRUE)

Idle == [pc |-> "idle", i |-> 0, status |-> 0, seeded |-> 0, message |-> None]

\* Documents that came in through the create_* endpoints.
UserDocs ==
    Len(store["workoutsession"]) + Len(store["foodlog"])
        + Len(SelectSeq(store["workouttemplate"], LAMBDA d : d["title"] \notin PrebuiltTitles))

(***************************************************************************)
(* main.py: workout templates                                              *)
(***************************************************************************)
\* POST /api/templates.  ok: whether the store accepts the insert.
create_template(template, ok) ==
    /\ request' = Asked("create_template", template, ok)
    /\ response' =
          IF ~WorkoutTemplateValid(template) THEN Reply("create_template", 422, <<>>)
          ELSE IF ~ok THEN Reply("create_template", 500, <<>>)
          ELSE Reply("create_template", 200, [id |-> ToString(NewId)])
    /\ store' =
          IF WorkoutTemplateValid(template) /\ ok
          THEN create_document("workouttemplate", template)
          ELSE store
    /\ UNCHANGED <<calls, doc, outs>>

\* GET /api/templates?q=
list_templates(q) ==
    LET filt == IF q = <<>> THEN [eq |-> EmptyDict, or |-> <<>>]
                ELSE [eq |-> EmptyDict,
                      or |-> << [field |-> "title", regex |-> q, options |-> "i"],
                                [field |-> "description", regex |-> q, options |-> "i"] >>]
    IN /\ request' = Asked("list_templates", q, TRUE)
       /\ response' =
             IF ~FilterCompiles(filt) THEN Reply("list_templates", 500, <<>>)
             ELSE Reply("list_templates", 200,
                        public_list(get_documents("workouttemplate", filt, None)))
       /\ UNCHANGED <<store, calls, doc, outs>>

(***************************************************************************)
(* main.py: seed_templates, one step per access to the store               *)
(***************************************************************************)
\* seed_templates without the test on existing.
seed_check_unconditional(p) ==
    /\ calls[p].pc = "idle"
    /\ calls' = [calls EXCEPT ![p] = [@ EXCEPT !.pc = "loop"]]
    /\ UNCHANGED <<store, request, response, doc, outs>>

\* existing = count_documents({}); the branch on existing == 0.
seed_check(p) ==
    /\ calls[p].pc = "idle"
    /\ calls' =
          [calls EXCEPT ![p] =
              IF count_documents("workouttemplate") = 0
              THEN [@ EXCEPT !.pc = "loop"]
              ELSE [@ EXCEPT !.pc = "done", !.status = 200, !.seeded = 0,
                             !.message = Some("Templates already exist")]]
    /\ UNCHANGED <<store, request, response, doc, outs>>

\* seed_templates that counts again before its first insert.
seed_insert_recheck(p, ok) ==
    /\ calls[p].pc = "loop"
    /\ store' =
          IF calls[p].i = 0 /\ count_documents("workouttemplate") # 0 THEN store
          ELSE IF ok
          THEN create_document("workouttemplate", PREBUILT_TEMPLATES[calls[p].i + 1])
          ELSE store
    /\ calls' =
          [calls EXCEPT ![p] =
              IF calls[p].i = 0 /\ count_documents("workouttemplate") # 0
              THEN [@ EXCEPT !.pc = "done", !.status = 200, !.seeded = 0,
                             !.message = Some("Templates already exist")]
              ELSE IF ~ok THEN [@ EXCEPT !.pc = "done", !.status = 500]
              ELSE IF calls[p].i + 1 = Len(PREBUILT_TEMPLATES)
              THEN [@ EXCEPT !.pc = "done", !.i = @ + 1, !.status = 200,
                             !.seeded = Len(PREBUILT_TEMPLATES)]
              ELSE [@ EXCEPT !.i = @ + 1]]
    /\ UNCHANGED <<request, response, doc, outs>>

\* seed_templates that takes its earlier inserts back when an insert fails.
seed_insert_rollback(p, ok) ==
    /\ calls[p].pc = "loop"
    /\ store' =
          IF ok THEN create_document("workouttemplate", PREBUILT_TEMPLATES[calls[p].i + 1])
          ELSE [store EXCEPT !["workouttemplate"] = SubSeq(@, 1, Len(@) - calls[p].i)]
    /\ calls' =
          [calls EXCEPT ![p] =
              IF ~ok THEN [@ EXCEPT !.pc = "done", !.status = 500]
              ELSE IF calls[p].i + 1 = Len(PREBUILT_TEMPLATES)
              THEN [@ EXCEPT !.pc = "done", !.i = @ + 1, !.status = 200,
                             !.seeded = Len(PREBUILT_TEMPLATES)]
              ELSE [@ EXCEPT !.i = @ + 1]]
    /\ UNCHANGED <<request, response, doc, outs>>

\* One iteration of the loop; after the last one the handler returns
\* len(PREBUILT_TEMPLATES).  A failed insert raises out of the handler.
seed_insert(p, ok) ==
    /\ calls[p].pc = "loop"
    /\ store' =
          IF ok THEN create_document("workouttemplate", PREBUILT_TEMPLATES[calls[p].i + 1])
          ELSE store
    /\ calls' =
          [calls EXCEPT ![p] =
              IF ~ok THEN [@ EXCEPT !.pc = "done", !.status = 500]
              ELSE IF calls[p].i + 1 = Len(PREBUILT_TEMPLATES)
              THEN [@ EXCEPT !.pc = "done", !.i = @ + 1, !.status = 200,
                             !.seeded = Len(PREBUILT_TEMPLATES)]
              ELSE [@ EXCEPT !.i = @ + 1]]
    /\ UNCHANGED <<request, response, doc, outs>>

(***************************************************************************)
(* main.py: workout sessions                                               *)
(***************************************************************************)
\* POST /api/sessions
create_session(session, ok) ==
    /\ request' = Asked("create_session", session, ok)
    /\ response' =
          IF ~WorkoutSessionValid(session) THEN Reply("create_session", 422, <<>>)
          ELSE IF ~ok THEN Reply("create_session", 500, <<>>)
          ELSE Reply("create_session", 200, [id |-> ToString(NewId)])
    /\ store' =
          IF WorkoutSessionValid(session) /\ ok
          THEN create_document("workoutsession", session)
          ELSE store
    /\ UNCHANGED <<calls, doc, outs>>

\* GET /api/sessions?user_id=&limit=  (limit: Query(50, ge=1, le=200))
list_sessions(user_id, limit) ==
    /\ request' = Asked("list_sessions", <<user_id, limit>>, TRUE)
    /\ response' =
          IF limit < 1 \/ limit > 200 THEN Reply("list_sessions", 422, <<>>)
          ELSE Reply("list_sessions", 200,
                     public_list(get_documents("workoutsession",
                                               [eq |-> ("user_id" :> user_id), or |-> <<>>],
                                               Some(limit))))
    /\ UNCHANGED <<store, calls, doc, outs>>

(***************************************************************************)
(* main.py: nutrition logs                                                 *)
(***************************************************************************)
\* create_food_log that names the sessions' collection.
create_food_log_elsewhere(log, ok) ==
    /\ request' = Asked("create_food_log", log, ok)
    /\ response' =
          IF ~FoodLogValid(log) THEN Reply("create_food_log", 422, <<>>)
          ELSE IF ~ok THEN Reply("create_food_log", 500, <<>>)
          ELSE Reply("create_food_log", 200, [id |-> ToString(NewId)])
    /\ store' =
          IF FoodLogValid(log) /\ ok
          THEN create_document("workoutsession", log)
          ELSE store
    /\ UNCHANGED <<calls, doc, outs>>

\* POST /api/food/log
create_food_log(log, ok) ==
    /\ request' = Asked("create_food_log", log, ok)
    /\ response' =
          IF ~FoodLogValid(log) THEN Reply("create_food_log", 422, <<>>)
          ELSE IF ~ok THEN Reply("create_food_log", 500, <<>>)
          ELSE Reply("create_food_log", 200, [id |-> ToString(NewId)])
    /\ store' =
          IF FoodLogValid(log) /\ ok
          THEN create_document("foodlog", log)
          ELSE store
    /\ UNCHANGED <<calls, doc, outs>>

\* GET /api/food/logs?user_id=&log_date=  (log_date: None, or text; "" is falsy)
list_food_logs(user_id, log_date) ==
    /\ request' = Asked("list_food_logs", <<user_id, log_date>>, TRUE)
    /\ response' =
          Reply("list_food_logs", 200,
                public_list(get_documents(
                    "foodlog",
                    [eq |-> IF log_date # None /\ log_date[1] # ""
                            THEN ("user_id" :> user_id) @@ ("log_date" :> log_date[1])
                            ELSE ("user_id" :> user_id),
                     or |-> <<>>],
                    None)))
    /\ UNCHANGED <<store, calls, doc, outs>>

(***************************************************************************)
(* main.py: food search and barcode lookup (OpenFoodFacts)                 *)
(*                                                                         *)
(* What the one requests.get of a request comes back with:                 *)
(*   [kind |-> "timeout" | "unreachable"]            requests.get raises   *)
(*   [kind |-> "response", status, json, data]       r.json() raises when  *)
(*       json = "invalid"; data is the decoded body: a list when           *)
(*       json = "array", a dict when json = "object".                      *)
(***************************************************************************)
\* dict.get(key): None when the key is absent.
Get(d, key) == IF key \in DOMAIN d THEN Some(d[key]) ELSE None

\* dict.get(key, {})
GetDict(d, key) == IF key \in DOMAIN d THEN d[key] ELSE EmptyDict

\* a or b, on numbers: None and 0 are falsy.
OrNum(a, b) == IF a # None /\ a[1] # 0 THEN a ELSE b

\* a or b, on text: None and "" are falsy.
OrStr(a, b) == IF a # None /\ a[1] # "" THEN a ELSE b

\* float(x.get(key, 0) or 0)
FloatOrZero(d, key) == OrNum(Get(d, key), Some(0))[1]

\* search_food, lines 180-191: one product as an item.
search_item(p) ==
    LET nutriments == GetDict(p, "nutriments")
        calories == OrNum(Get(nutriments, "energy-kcal_100g"),
                          Get(nutriments, "energy-kcal_serving"))
    IN [barcode |-> Get(p, "code"),
        name |-> OrStr(OrStr(Get(p, "product_name"), Get(p, "generic_name")),
                       Some("Unknown"))[1],
        brand |-> Get(p, "brands"),
        calories |-> IF calories # None THEN calories[1] ELSE 0,
        protein |-> FloatOrZero(nutriments, "proteins_100g"),
        carbs |-> FloatOrZero(nutriments, "carbohydrates_100g"),
        fat |-> FloatOrZero(nutriments, "fat_100g"),
        serving_size |-> Get(p, "serving_size")]

\* GET /api/food/search
search_food(got) ==
    /\ request' = Asked("search_food", got, TRUE)
    /\ response' =
          IF got.kind # "response" \/ got.json # "object"
          THEN [op |-> "search_food", status |-> 500, body |-> <<>>, requests |-> 1]
          ELSE [op |-> "search_food", status |-> 200, requests |-> 1,
                body |-> [results |->
                             LET products == IF "products" \in DOMAIN got.data
                                             THEN got.data["products"] ELSE <<>>
                             IN [n \in 1..Len(products) |-> search_item(products[n])]]]
    /\ UNCHANGED <<store, calls, doc, outs>>

\* food_by_barcode, lines 203-215: the product as an item.
barcode_item(p) ==
    LET nutriments == GetDict(p, "nutriments")
        calories == OrNum(Get(nutriments, "energy-kcal_100g"),
                          Get(nutriments, "energy-kcal_serving"))
    IN [barcode |-> Get(p, "code"),
        name |-> OrStr(OrStr(Get(p, "product_name"), Get(p, "generic_name")),
                       Some("Unknown"))[1],
        brand |-> Get(p, "brands"),
        calories |-> IF calories # None THEN calories[1] ELSE 0,
        protein |-> FloatOrZero(nutriments, "proteins_100g"),
        carbs |-> FloatOrZero(nutriments, "carbohydrates_100g"),
        fat |-> FloatOrZero(nutriments, "fat_100g"),
        serving_size |-> Get(p, "serving_size")]

\* GET /api/food/barcode/{code}
food_by_barcode(got) ==
    /\ request' = Asked("food_by_barcode", got, TRUE)
    /\ response' =
          IF got.kind # "response" \/ got.json # "object"
          THEN [op |-> "food_by_barcode", status |-> 500, body |-> <<>>, requests |-> 1]
          ELSE [op |-> "food_by_barcode", status |-> 200, requests |-> 1,
                body |-> barcode_item(GetDict(got.data, "product"))]
    /\ UNCHANGED <<store, calls, doc, outs>>

(***************************************************************************)
(* Inputs of the food endpoints: what the external service answers.        *)
(***************************************************************************)
NutrimentKeys == {"energy-kcal_100g", "energy-kcal_serving", "proteins_100g"}

NutrimentInputs == UNION {[K -> {0, 50}] : K \in SUBSET NutrimentKeys}

ProductInputs ==
    {EmptyDict}
    \cup {("nutriments" :> n) : n \in NutrimentInputs}
    \cup {("product_name" :> "Oats") @@ ("code" :> "737628064502") @@ ("nutriments" :> n) :
             n \in NutrimentInputs}

TransportFailures ==
    {[kind |-> k, status |-> 0, json |-> "none", data |-> EmptyDict] :
        k \in {"timeout", "unreachable"}}

Answers(bodies) ==
    {[kind |-> "response", status |-> s, json |-> j, data |-> EmptyDict] :
        s \in {200, 404, 503}, j \in {"invalid", "array"}}
    \cup {[kind |-> "response", status |-> s, json |-> "object", data |-> b] :
             s \in {200, 404, 503}, b \in bodies}

SearchInputs ==
    TransportFailures
    \cup Answers({EmptyDict, ("products" :> <<>>)}
                 \cup {("products" :> <<p>>) : p \in ProductInputs})

BarcodeInputs ==
    TransportFailures
    \cup Answers({EmptyDict} \cup {("product" :> p) : p \in ProductInputs})

(***************************************************************************)
(* Inputs of the search: every query of at most MaxQLen characters.        *)
(***************************************************************************)
QueryChars == {"d", "A", "y", ".", "("}

Queries == UNION {[1..n -> QueryChars] : n \in 0..MaxQLen}

(***************************************************************************)
(* Inputs of to_public: None, the empty dict, and dicts with or without    *)
(* "_id" and "id".                                                         *)
(***************************************************************************)
DocInputs ==
    {PyNone}
    \cup {a @@ b @@ c @@ d :
             a \in {EmptyDict} \cup {("_id" :> n) : n \in 1..MaxId},
             b \in {EmptyDict} \cup {("id" :> s) : s \in {"1", "x"}},
             c \in {EmptyDict} \cup {("title" :> s) : s \in {"Leg Day"}},
             d \in {EmptyDict} \cup {("user_id" :> s) : s \in {"u1", "u2"}}}

\* doc is given to to_public, then each result is given to it again.
apply_to_public ==
    /\ Len(outs) < MaxApply
    /\ outs' = Append(outs, to_public(IF outs = <<>> THEN doc ELSE outs[Len(outs)]))
    /\ doc' = IF outs = <<>> THEN to_public_argument(doc) ELSE doc
    /\ UNCHANGED <<store, calls, request, response>>

(***************************************************************************)
(* Specifications                                                          *)
(***************************************************************************)
Calls == 1..NumCalls

Init ==
    /\ store = [c \in Collections |-> <<>>]
    /\ calls = [p \in Calls |-> Idle]
    /\ request = NoRequest
    /\ response = NoResponse
    /\ doc = PyNone
    /\ outs = <<>>

\* No seed_templates request is between its count and its return.
Quiet == \A p \in Calls : calls[p].pc # "loop"

\* The parameters of the read requests where the store is what is looked at.
FewQueries == {<<"d">>}
FewLimits == {0, 50}
FewDates == {None, Some("2024-01-02")}
FewAnswers == {x \in TransportFailures : x.kind = "timeout"}

\* Whether the store accepts an insert: a choice only for a payload that
\* reaches the store.
Outcomes(valid) == IF valid THEN BOOLEAN ELSE {TRUE}

\* Requests served one after the other, with every payload of the model; the
\* store may refuse any insert.
Next ==
    \/ \E p \in Calls : Quiet /\ seed_check(p)
    \/ \E p \in Calls, ok \in BOOLEAN : seed_insert(p, ok)
    \/ \E t \in TemplateInputs : \E ok \in Outcomes(WorkoutTemplateValid(t)) :
          Quiet /\ UserDocs < MaxDocs /\ create_template(t, ok)
    \/ \E s \in SessionInputs : \E ok \in Outcomes(WorkoutSessionValid(s)) :
          Quiet /\ UserDocs < MaxDocs /\ create_session(s, ok)
    \/ \E l \in FoodLogInputs : \E ok \in Outcomes(FoodLogValid(l)) :
          Quiet /\ UserDocs < MaxDocs /\ create_food_log(l, ok)
    \/ \E q \in FewQueries : Quiet /\ list_templates(q)
    \/ \E limit \in FewLimits : Quiet /\ list_sessions("u1", limit)
    \/ \E d \in FewDates : Quiet /\ list_food_logs("u1", d)
    \/ \E got \in FewAnswers : Quiet /\ search_food(got)
    \/ \E got \in FewAnswers : Quiet /\ food_by_barcode(got)

Spec == Init /\ [][Next]_vars

\* Seeding served concurrently: the steps of the seed_templates requests
\* interleave with each other and with create_template.  The requests are
\* interchangeable, so they are numbered in the order of their first step.
Started(p) == IF p = 1 THEN TRUE ELSE calls[p - 1].pc # "idle"

RaceNext ==
    \/ \E p \in Calls : Started(p) /\ seed_check(p)
    \/ \E p \in Calls : seed_insert(p, TRUE)
    \/ \E t \in {x \in TemplateInputs : x.exercises = <<>>} :
          UserDocs < MaxDocs /\ create_template(t, TRUE)

RaceSpec == Init /\ [][RaceNext]_vars

\* The template search over stores filled by seeding and by create_template.
SearchNext ==
    \/ \E p \in Calls : Quiet /\ seed_check(p)
    \/ \E p \in Calls : seed_insert(p, TRUE)
    \/ \E t \in {x \in TemplateInputs : x.exercises = <<>>} :
          Quiet /\ UserDocs < MaxDocs /\ create_template(t, TRUE)
    \/ \E q \in Queries : Quiet /\ list_templates(q)

SearchSpec == Init /\ [][SearchNext]_vars

\* The food lookups over the answers of the external service.
FoodNext ==
    \/ \E got \in SearchInputs : search_food(got)
    \/ \E got \in BarcodeInputs : food_by_barcode(got)

FoodSpec == Init /\ [][FoodNext]_vars

\* to_public over the documents of the model.
PublicInit ==
    /\ store = [c \in Collections |-> <<>>]
    /\ calls = [p \in Calls |-> Idle]
    /\ request = NoRequest
    /\ response = NoResponse
    /\ doc \in DocInputs
    /\ outs = <<>>

PublicNext == apply_to_public

PublicSpec == PublicInit /\ [][PublicNext]_vars

(***************************************************************************)
(* Properties                                                              *)
(***************************************************************************)
Templates == store["workouttemplate"]

\* A stored document without the identifier the store gave it.
Body(d) == [k \in DOMAIN d \ {"_id"} |-> d[k]]

\* The stored copies of the prebuilt templates.
SeedDocs == SelectSeq(Templates, LAMBDA d : d["title"] \in PrebuiltTitles)

Returned(p, n) == calls[p].pc = "done" /\ calls[p].status = 200 /\ calls[p].seeded = n

\* The step is the first step of request p.
Begins(p) == calls[p].pc = "idle" /\ calls'[p].pc # "idle"

\* C1, in states: a request that returned seeded = 3 left the three prebuilt
\* templates, in order, at the head of the collection; no prebuilt template is
\* stored twice and at most one request returned seeded = 3.
SeedOnceState ==
    /\ \A p \in Calls :
          Returned(p, 3) =>
              /\ Len(Templates) >= 3
              /\ \A k \in 1..3 : Body(Templates[k]) = PREBUILT_TEMPLATES[k]
    /\ \A a, b \in 1..Len(Templates) :
          (Templates[a]["title"] \in PrebuiltTitles
              /\ Templates[a]["title"] = Templates[b]["title"]) => a = b
    /\ Cardinality({p \in Calls : Returned(p, 3)}) <= 1

\* C1, in steps: the count on an empty collection sends the request into its
\* loop; on a collection holding a document it returns seeded = 0 with a
\* message and the store is as before; an insert the store accepts never ends
\* the request in error; the request that leaves its loop with a result
\* returns seeded = 3 and the collection is exactly the three prebuilt templates.
SeedOnceStep ==
    \A p \in Calls :
        /\ Begins(p) =>
              /\ store' = store
              /\ IF Len(Templates) = 0
                 THEN calls'[p].pc = "loop" /\ calls'[p].i = 0
                 ELSE /\ calls'[p].pc = "done" /\ calls'[p].status = 200
                      /\ calls'[p].seeded = 0 /\ calls'[p].message # None
        /\ seed_insert(p, TRUE) => calls'[p].status # 500
        /\ (calls[p].pc = "loop" /\ calls'[p].pc = "done" /\ calls'[p].status = 200) =>
              /\ calls'[p].seeded = 3
              /\ Len(store'["workouttemplate"]) = 3
              /\ \A k \in 1..3 : Body(store'["workouttemplate"][k]) = PREBUILT_TEMPLATES[k]

\* C1: sequential seeding inserts the three prebuilt templates into an empty
\* collection and returns seeded = 3, inserts nothing into a collection that
\* holds a document and returns seeded = 0 with a message; the prebuilt
\* templates are inserted at most once.
C1_SeedOnce == []SeedOnceState /\ [][SeedOnceStep]_vars

\* One request seeded the empty collection, a later one found it filled.
C1_Witness ==
    /\ \E p \in Calls : Returned(p, 3)
    /\ \E p \in Calls : Returned(p, 0) /\ calls[p].message # None
    /\ Len(Templates) = 3

\* The constraints of schemas.py, as the data model states them.
ExerciseInBounds(e) ==
    /\ e.sets \in 1..20
    /\ e.reps \in 1..100
    /\ (e.weight # None => e.weight[1] >= 0)

FoodLogInBounds(l) ==
    /\ l.quantity >= 10
    /\ l.item.calories >= 0
    /\ \A m \in {l.item.protein, l.item.carbs, l.item.fat} : m # None => m[1] >= 0

AllStoredInBounds ==
    /\ \A c \in {"workouttemplate", "workoutsession"} :
          \A n \in 1..Len(store[c]) :
              \A j \in 1..Len(store[c][n]["exercises"]) :
                  ExerciseInBounds(store[c][n]["exercises"][j])
    /\ \A n \in 1..Len(store["foodlog"]) : FoodLogInBounds(store["foodlog"][n])

\* A create request whose payload breaks a constraint stores nothing and is
\* answered 422.
RejectedWhole ==
    /\ (/\ request'.op = "create_template"
        /\ create_template(request'.arg, request'.ok)
        /\ \E j \in 1..Len(request'.arg.exercises) :
               ~ExerciseInBounds(request'.arg.exercises[j]))
          => store' = store /\ response'.status = 422
    /\ (/\ request'.op = "create_session"
        /\ create_session(request'.arg, request'.ok)
        /\ \E j \in 1..Len(request'.arg.exercises) :
               ~ExerciseInBounds(request'.arg.exercises[j]))
          => store' = store /\ response'.status = 422
    /\ (/\ request'.op = "create_food_log"
        /\ create_food_log(request'.arg, request'.ok)
        /\ ~FoodLogInBounds(request'.arg))
          => store' = store /\ response'.status = 422

\* C2: every stored document satisfies the constraints of its schema, and a
\* payload that breaks one of them stores nothing.
C2_ValidatedStore == []AllStoredInBounds /\ [][RejectedWhole]_vars

\* The collection is seeded, and a template whose second exercise is out of
\* bounds was refused whole.
C2_Witness ==
    /\ Len(Templates) = 3
    /\ request.op = "create_template"
    /\ Len(request.arg.exercises) = 2
    /\ ExerciseInBounds(request.arg.exercises[1])
    /\ ~ExerciseInBounds(request.arg.exercises[2])
    /\ response.status = 422

IsPrefix(a, b) == Len(a) <= Len(b) /\ \A n \in 1..Len(a) : b[n] = a[n]

\* The step adds exactly one document to collection c and touches no other.
AddsOneTo(c) ==
    /\ Len(store'[c]) = Len(store[c]) + 1
    /\ \A o \in Collections \ {c} : store'[o] = store[o]

\* Every step leaves each stored document in place and as it was.
OnlyGrows == \A c \in Collections : IsPrefix(store[c], store'[c])

ReadsLeaveStore ==
    /\ (request'.op = "list_templates" /\ list_templates(request'.arg)) => store' = store
    /\ (request'.op = "list_sessions" /\ list_sessions(request'.arg[1], request'.arg[2]))
          => store' = store
    /\ (request'.op = "list_food_logs" /\ list_food_logs(request'.arg[1], request'.arg[2]))
          => store' = store
    /\ (request'.op = "search_food" /\ search_food(request'.arg)) => store' = store
    /\ (request'.op = "food_by_barcode" /\ food_by_barcode(request'.arg)) => store' = store

CreatesAddOne ==
    /\ (request'.op = "create_template" /\ create_template(request'.arg, request'.ok)) =>
          IF response'.status = 200 THEN AddsOneTo("workouttemplate") ELSE store' = store
    /\ (request'.op = "create_session" /\ create_session(request'.arg, request'.ok)) =>
          IF response'.status = 200 THEN AddsOneTo("workoutsession") ELSE store' = store
    /\ (request'.op = "create_food_log" /\ create_food_log(request'.arg, request'.ok)) =>
          IF response'.status = 200 THEN AddsOneTo("foodlog") ELSE store' = store

\* C8: a stored document is never modified or removed; the list and food
\* lookup endpoints leave every collection unchanged; a create endpoint that
\* answers with an id added exactly one document to its own collection and
\* left the others unchanged.
C8_StoreOnlyGrows == [][OnlyGrows /\ ReadsLeaveStore /\ CreatesAddOne]_vars

\* A food log was stored beside the seeded templates and then listed.
C8_Witness ==
    /\ Len(Templates) = 3
    /\ Len(store["foodlog"]) = 1
    /\ request.op = "list_food_logs"
    /\ response.status = 200
    /\ Len(response.body) = 1

\* Request p ended in error on its insert number n + 1.
FailedAfter(p, n) == calls[p].pc = "done" /\ calls[p].status = 500 /\ calls[p].i = n

\* The inserts made before the failing one stay, and no prebuilt template
\* joins them.
PartialSeedStays ==
    \A p \in Calls, n \in 1..2 :
        FailedAfter(p, n) =>
            /\ Len(SeedDocs) = n
            /\ \A k \in 1..n : Body(Templates[k]) = PREBUILT_TEMPLATES[k]

\* The failing insert ends the request where it is and takes nothing back;
\* once a request failed after its first insert, every request that starts
\* returns seeded = 0 and inserts nothing.
PartialSeedStep ==
    /\ \A p \in Calls :
          (calls[p].pc = "loop" /\ calls'[p].status = 500) =>
              /\ store' = store
              /\ calls'[p].pc = "done"
              /\ calls'[p].i = calls[p].i
    /\ (\E p \in Calls, n \in 1..2 : FailedAfter(p, n)) =>
          \A r \in Calls :
              Begins(r) =>
                  /\ calls'[r].pc = "done" /\ calls'[r].status = 200
                  /\ calls'[r].seeded = 0
                  /\ store' = store

\* C10: a seed_templates request whose insert number k fails ends in error
\* with its k - 1 earlier inserts still stored and the others never made;
\* when k > 1 every later request returns seeded = 0, so the collection keeps
\* fewer than the three prebuilt templates.
C10_PartialSeed == []PartialSeedStays /\ [][PartialSeedStep]_vars

\* The third insert failed, two templates stay, and the next request seeded
\* nothing.
C10_Witness ==
    /\ \E p \in Calls : FailedAfter(p, 2)
    /\ \E p \in Calls : Returned(p, 0)
    /\ Len(Templates) = 2
    /\ Len(SeedDocs) = 2

RECURSIVE Inserted(_)
\* The inserts made so far by the requests 1..p.
Inserted(p) == IF p = 0 THEN 0 ELSE calls[p].i + Inserted(p - 1)

\* A request that passed its count inserts at every step of its loop,
\* whatever the collection holds by then.
InsertsRegardless ==
    \A p \in Calls :
        (calls[p].pc = "loop" /\ calls'[p] # calls[p]) =>
            /\ calls'[p].i = calls[p].i + 1
            /\ Len(store'["workouttemplate"]) = Len(Templates) + 1
            /\ Body(store'["workouttemplate"][Len(Templates) + 1])
                  = PREBUILT_TEMPLATES[calls[p].i + 1]

\* The collection holds one prebuilt template for each insert of each request.
EveryInsertStored ==
    /\ Len(SeedDocs) = Inserted(NumCalls)
    /\ \A p \in Calls : Returned(p, 3) => calls[p].i = 3

\* C9: seeding is not atomic.  Nothing is checked again between the count and
\* the inserts, so requests whose counts all saw the empty collection each
\* insert the three prebuilt templates.
C9_SeedRace == []EveryInsertStored /\ [][InsertsRegardless]_vars

\* Two requests returned seeded = 3, the collection holds more than three
\* documents, and the first of them came from a create_template that ran
\* between a count and the inserts.
C9_Witness ==
    /\ Cardinality({p \in Calls : Returned(p, 3)}) >= 2
    /\ Len(Templates) > 3
    /\ Templates[1]["title"] \notin PrebuiltTitles

HasId(d) == ~Falsy(d) /\ "_id" \in DOMAIN d

\* The result r of to_public(d) keeps the fields named in kept as they are.
Renamed(d, r, kept) ==
    IF HasId(d)
    THEN /\ "id" \in DOMAIN r
         /\ r["id"] = ToString(d["_id"])
         /\ "_id" \notin DOMAIN r
         /\ \A k \in kept : k \in DOMAIN r /\ r[k] = d[k]
    ELSE r = d

\* C4 as claimed: to_public maps "_id" to "id" in string form, removes "_id"
\* and leaves every other field of the document, a field named "id"
\* included, with the value it had; without "_id" the result is the document.
C4_AllOtherFieldsKept ==
    Len(outs) >= 1 => Renamed(doc, outs[1], DOMAIN doc \ {"_id"})

\* The fields of the result are those of the document, with "id" for "_id";
\* all but "id" have the value they had.
RenamedState ==
    Len(outs) >= 1 =>
        /\ Renamed(doc, outs[1], DOMAIN doc \ {"_id", "id"})
        /\ HasId(doc) => DOMAIN outs[1] = (DOMAIN doc \ {"_id"}) \cup {"id"}

\* C4, amended: to_public maps "_id" to "id" in string form, replacing the
\* value of a field "id" the document already had, removes "_id" and leaves
\* every field other than "_id" and "id" as stored; without "_id" the result
\* is the document; the document given is not changed.
C4_OtherFieldsKept == []RenamedState /\ [][doc' = doc]_vars

\* A document with "_id" and with an "id" of its own, whose "id" is replaced.
C4_Witness ==
    /\ Len(outs) >= 1
    /\ HasId(doc)
    /\ "id" \in DOMAIN doc
    /\ "title" \in DOMAIN doc
    /\ outs[1]["id"] # doc["id"]

\* C7: to_public applied to its own result returns that result, and the
\* result of one application has no "_id" field.
C7_Idempotent ==
    /\ Len(outs) >= 1 => "_id" \notin DOMAIN outs[1]
    /\ Len(outs) >= 2 => outs[2] = outs[1]

\* to_public was applied twice to a document that had an "_id".
C7_Witness == Len(outs) >= 2 /\ HasId(doc)

\* q occurs in s as it is written, letters compared in either case.
Occurs(q, s) ==
    \E n \in 0..(Len(s) - Len(q)) : \A j \in 1..Len(q) : Lower(q[j]) = Lower(s[n + j])

\* The template holds q in its title or in its description.
Holds(q, d) ==
    \/ Occurs(q, d["title"])
    \/ d["description"] # None /\ Occurs(q, d["description"][1])

\* The documents a response to list_templates carries.
Listed(r) == IF r.status = 200 THEN {r.body[n] : n \in 1..Len(r.body)} ELSE {}

\* C3 as claimed: list_templates(q) returns a stored template exactly when q,
\* letters compared in either case, occurs literally in its title or in its
\* description; without q it returns every stored template.
C3_LiteralSearch ==
    [][(request'.op = "list_templates" /\ list_templates(request'.arg)) =>
          \A n \in 1..Len(Templates) :
              to_public(Templates[n]) \in Listed(response')
                  <=> Holds(request'.arg, Templates[n])]_vars

\* The calories the calorie rule gives: the per-100g value when that field is
\* present, else the per-serving value when that one is present, else 0.
RuleCalories(p) ==
    LET nutriments == GetDict(p, "nutriments")
    IN IF "energy-kcal_100g" \in DOMAIN nutriments THEN nutriments["energy-kcal_100g"]
       ELSE IF "energy-kcal_serving" \in DOMAIN nutriments
            THEN nutriments["energy-kcal_serving"]
            ELSE 0

\* C5 as claimed: the calories of every item search_food and food_by_barcode
\* return follow the calorie rule.
C5_CaloriesByPresence ==
    /\ (request.op = "search_food" /\ response.status = 200) =>
          LET products == IF "products" \in DOMAIN request.arg.data
                          THEN request.arg.data["products"] ELSE <<>>
          IN /\ Len(response.body.results) = Len(products)
             /\ \A n \in 1..Len(products) :
                   response.body.results[n].calories = RuleCalories(products[n])
    /\ (request.op = "food_by_barcode" /\ response.status = 200) =>
          response.body.calories = RuleCalories(GetDict(request.arg.data, "product"))

\* The external call failed: in transport, by its status, or by its payload.
CallFailed(got) ==
    \/ got.kind # "response"
    \/ got.status < 200 \/ got.status > 299
    \/ got.json = "invalid"

\* C6 as claimed: a food request whose one external call failed is answered
\* with the service error, never with an item or a list of results.
C6_FailuresAreErrors ==
    request.op \in {"search_food", "food_by_barcode"} =>
        /\ response.requests = 1
        /\ CallFailed(request.arg) => response.status = 500
====
